---- MODULE Spec2Model ----
(***************************************************************************)
(* A model of bms-table-loader: LoadBMSTable and the helpers it calls      *)
(* (FetchWithRetry, IsHTMLOrJSON, ReadMetaTag, BrokenBMSJSONParse,         *)
(* HEAD_SCHEMA, ExtractBMSBody) and BMSTable.getLevelOrder.                *)
(*                                                                         *)
(* Decoded JSON values are tagged records [t |-> type, v |-> payload]:     *)
(*   null  [t |-> "null"]            boolean [t |-> "bool", v |-> TRUE]    *)
(*   number [t |-> "num", v |-> 1]   string  [t |-> "str", v |-> "1"]      *)
(*   array [t |-> "arr", v |-> <<..>>]                                     *)
(*   object [t |-> "obj", v |-> [field |-> value, ...]]                    *)
(* A property an object does not have reads as Undefined.                  *)
(***************************************************************************)
EXTENDS Integers, Sequences, FiniteSets, TLC

VARIABLES
    pc,             \* position of the LoadBMSTable call
    url,            \* LoadBMSTable's argument
    fetch,          \* the FetchWithRetry call in progress (or the last one)
    log,            \* status codes of the GETs issued by that FetchWithRetry call
    gets,           \* number of GETs issued since LoadBMSTable was called
    received,       \* the responses LoadBMSTable has read, in order
    headerLocation, \* LoadBMSTable's local
    headerJSON,     \* LoadBMSTable's local: the decoded header
    rawBodyJSON,    \* LoadBMSTable's local: the decoded body
    bodyJSON,       \* LoadBMSTable's local: what ExtractBMSBody returned
    table,          \* the BMSTable returned, or NoTable
    error,          \* the error thrown, or NoError
    levelOrder,     \* what the last getLevelOrder() call returned, or NotCalled
    calls,          \* the URLs FetchWithRetry has been called with, in order
    type            \* LoadBMSTable's local: what IsHTMLOrJSON returned

vars == <<pc, url, fetch, log, gets, received, headerLocation, headerJSON, rawBodyJSON,
          bodyJSON, table, error, levelOrder, calls, type>>

-----------------------------------------------------------------------------
(* Bounds of the model. *)

\* Largest retryCount FetchWithRetry is called with when called on its own.
MaxRetryCount == 4

\* Longest body array, and longest levels / level_order array, a document holds.
MaxBodyLen == 3

-----------------------------------------------------------------------------
(* JSON values and the JavaScript operations the code applies to them. *)

Undefined == [t |-> "undefined"]
Null == [t |-> "null"]
Num(n) == [t |-> "num", v |-> n]
Str(s) == [t |-> "str", v |-> s]
Arr(s) == [t |-> "arr", v |-> s]
Obj(r) == [t |-> "obj", v |-> r]

\* typeof x
TypeOf(x) ==
    CASE x.t = "undefined" -> "undefined"
      [] x.t = "bool" -> "boolean"
      [] x.t = "num" -> "number"
      [] x.t = "str" -> "string"
      [] OTHER -> "object"

\* Array.isArray(x)
IsArray(x) == x.t = "arr"

\* rec.k on an object: the field, or undefined when the object has none
Get(rec, k) == IF k \in DOMAIN rec.v THEN rec.v[k] ELSE Undefined

\* ToBoolean(x), as `if (x)` and `!x` apply it
Truthy(x) ==
    CASE x.t \in {"undefined", "null"} -> FALSE
      [] x.t = "bool" -> x.v
      [] x.t = "num" -> x.v # 0
      [] x.t = "str" -> x.v # ""
      [] OTHER -> TRUE

-----------------------------------------------------------------------------
(* FetchWithRetry *)

NoStatus == 0
NoError == [kind |-> "none"]
NoTable == [made |-> FALSE]
NotCalled == [called |-> FALSE]
NoValue == [t |-> "unset"]

DEFAULT_RETRY_COUNT == 3
HTTP_OK == 200

\* Status codes a GET may answer with.
Statuses == {200, 403, 500}

Urls == {"http://a/t/table.html", "http://a/t/header.json"}

\* The retryCount argument: a number, or left out.
Omitted == [given |-> FALSE]
Given(n) == [given |-> TRUE, n |-> n]

RetryCountOf_OneMore(arg) ==
    IF arg.given THEN arg.n ELSE DEFAULT_RETRY_COUNT + 1

\* `retryCount = 3`: the default applies when the argument is left out
RetryCountOf(arg) == IF arg.given THEN arg.n ELSE DEFAULT_RETRY_COUNT

\* No FetchWithRetry call is in progress: the last one has returned and its
\* response has been read.
NoFetch ==
    [url |-> "", defaulted |-> FALSE, retryCount |-> -1, tries |-> 0,
     lastRes |-> NoStatus, state |-> "idle", res |-> NoStatus]

\* The state of a FetchWithRetry call on entry: tries = 0, lastRes undefined.
FetchCall(u, arg) ==
    [url |-> u, defaulted |-> ~arg.given, retryCount |-> RetryCountOf(arg),
     tries |-> 0, lastRes |-> NoStatus, state |-> "loop", res |-> NoStatus]

LoopGuard_OffByOne(f) == f.tries <= f.retryCount

\* while (tries < retryCount)
LoopGuard(f) == f.tries < f.retryCount

\* res.status === 200
IsSuccess(status) == status = HTTP_OK

ExhaustedError_NoZeroCheck(f) ==
    [kind |-> "FetchFailed", url |-> f.url, status |-> f.lastRes]

\* `throw new Error(...)` after the loop: which error, carrying which status
ExhaustedError(f) ==
    IF f.lastRes = NoStatus
    THEN [kind |-> "ZeroRetries", url |-> f.url]
    ELSE [kind |-> "FetchFailed", url |-> f.url, status |-> f.lastRes]

\* One iteration of the loop: a GET, then return on 200 or count the failure.
FetchAttempt ==
    /\ fetch.state = "loop"
    /\ LoopGuard(fetch)
    /\ \E status \in Statuses :
        /\ log' = Append(log, status)
        /\ gets' = gets + 1
        /\ IF IsSuccess(status)
           THEN fetch' = [fetch EXCEPT !.state = "returned", !.res = status]
           ELSE fetch' = [fetch EXCEPT !.lastRes = status, !.tries = @ + 1]
    /\ UNCHANGED <<pc, url, received, headerLocation, headerJSON, rawBodyJSON,
                   bodyJSON, table, error, levelOrder, calls, type>>

\* The loop is left without a 200: FetchWithRetry throws, and so does its caller.
FetchExhausted ==
    /\ fetch.state = "loop"
    /\ ~LoopGuard(fetch)
    /\ fetch' = [fetch EXCEPT !.state = "thrown"]
    /\ error' = ExhaustedError(fetch)
    /\ pc' = "failed"
    /\ UNCHANGED <<url, log, gets, received, headerLocation, headerJSON,
                   rawBodyJSON, bodyJSON, table, levelOrder, calls, type>>

\* FetchWithRetry called on its own, with any retry count.
InitFetch ==
    /\ pc = "fetchOnly"
    /\ url \in Urls
    /\ \E arg \in {Omitted} \cup {Given(n) : n \in 0..MaxRetryCount} :
           fetch = FetchCall(url, arg)
    /\ log = <<>>
    /\ gets = 0
    /\ received = <<>>
    /\ headerLocation = ""
    /\ headerJSON = NoValue
    /\ rawBodyJSON = NoValue
    /\ bodyJSON = NoValue
    /\ table = NoTable
    /\ error = NoError
    /\ levelOrder = NotCalled
    /\ calls = <<url>>
    /\ type = "unset"

NextFetch == FetchAttempt \/ FetchExhausted

SpecFetch == InitFetch /\ [][NextFetch]_vars

\* C1: called with the default retry bound, FetchWithRetry issues at most 3
\* GETs, never issues one after a 200, returns exactly when the last GET
\* answered 200, and throws only after 3 non-200 answers, with an error that
\* carries the status of the third (last) one.
C1_DefaultBoundRetry ==
    fetch.defaulted =>
        /\ Len(log) <= 3
        /\ \A i \in 1..(Len(log) - 1) : log[i] # 200
        /\ (fetch.state = "returned") <=> (Len(log) >= 1 /\ log[Len(log)] = 200)
        /\ fetch.state = "returned" => fetch.res = 200 /\ error = NoError
        /\ fetch.state = "thrown" =>
              /\ Len(log) = 3
              /\ \A i \in 1..3 : log[i] # 200
              /\ error = [kind |-> "FetchFailed", url |-> fetch.url,
                          status |-> log[3]]
        /\ (fetch.state = "loop" /\ Len(log) = 3) => ~LoopGuard(fetch)

\* C1's case: three failures whose last status differs from the first.
C1_Witness ==
    /\ fetch.defaulted
    /\ fetch.state = "thrown"
    /\ Len(log) = 3
    /\ log[1] # log[3]
    /\ log[2] # log[3]

\* C2: called with a retry bound of zero, FetchWithRetry issues no GET, never
\* returns a response, and ends by throwing the zero-retries error, which is
\* not the error of exhausted retries.
C2_ZeroRetryBound ==
    (fetch.retryCount = 0) =>
        /\ log = <<>>
        /\ fetch.state # "returned"
        /\ fetch.state = "loop" => ~LoopGuard(fetch) /\ error = NoError
        /\ fetch.state = "thrown" =>
              /\ error = [kind |-> "ZeroRetries", url |-> fetch.url]
              /\ error.kind # "FetchFailed"

\* C2's case: the call with bound zero has thrown.
C2_Witness == fetch.retryCount = 0 /\ fetch.state = "thrown" /\ log = <<>>

-----------------------------------------------------------------------------
(* ExtractBMSBody *)

VALID_MD5 == "d0f497c0f955e7edfb0278f446cdb6f8"
VALID_SHA256 == "769359ebb55d3d6dff3b5c6a07ec03be9b87beda1ffb0c07d7ea99590605a732"

LEN_MD5_HEX_HASH == Len("d0f497c0f955e7edfb0278f446cdb6f8")
LEN_SHA256_HEX_HASH ==
    Len("769359ebb55d3d6dff3b5c6a07ec03be9b87beda1ffb0c07d7ea99590605a732")

LevelIsNumberOrString_StringOnly(rec) == TypeOf(Get(rec, "level")) = "string"

\* !(typeof rec.level !== "number" && typeof rec.level !== "string")
LevelIsNumberOrString(rec) ==
    ~(TypeOf(Get(rec, "level")) # "number" /\ TypeOf(Get(rec, "level")) # "string")

MD5Unusable_TypeOnly(rec) == TypeOf(Get(rec, "md5")) # "string"

\* typeof rec.md5 !== "string" || rec.md5.length !== LEN_MD5_HEX_HASH
MD5Unusable(rec) ==
    \/ TypeOf(Get(rec, "md5")) # "string"
    \/ Len(Get(rec, "md5").v) # LEN_MD5_HEX_HASH

SHA256Unusable_TypeOnly(rec) == TypeOf(Get(rec, "sha256")) # "string"

\* typeof rec.sha256 !== "string" || rec.sha256.length !== LEN_SHA256_HEX_HASH
SHA256Unusable(rec) ==
    \/ TypeOf(Get(rec, "sha256")) # "string"
    \/ Len(Get(rec, "sha256").v) # LEN_SHA256_HEX_HASH

\* The branch of the md5 / sha256 test an object entry with a level leaves the
\* loop body by: "md5" (we have a valid md5), "sha256" (we have a valid
\* sha256) or "continue" (no md5, no sha256).
ChecksumBranch(rec) ==
    IF MD5Unusable(rec)
    THEN IF SHA256Unusable(rec) THEN "continue" ELSE "sha256"
    ELSE "md5"

\* Whether one pass of the loop body reaches bmsTableEntries.push(entry).
EntryPushed(entry) ==
    IF entry = Null
    THEN FALSE
    ELSE IF TypeOf(entry) # "object" \/ IsArray(entry)
    THEN FALSE
    ELSE IF ~LevelIsNumberOrString(entry)
    THEN FALSE
    ELSE ChecksumBranch(entry) # "continue"

PushedValue_LevelAsString(entry) ==
    IF Get(entry, "level").t = "num"
    THEN Obj([entry.v EXCEPT !["level"] = Str(ToString(@.v))])
    ELSE entry

\* bmsTableEntries.push(entry as BMSTableEntry): the element itself
PushedValue(entry) == entry

RECURSIVE ExtractLoop(_, _, _)
\* for (const entry of rawData), from element i on, with bmsTableEntries = acc
ExtractLoop(rawData, i, acc) ==
    IF i > Len(rawData)
    THEN acc
    ELSE ExtractLoop(rawData, i + 1,
                     IF EntryPushed(rawData[i])
                     THEN Append(acc, PushedValue(rawData[i]))
                     ELSE acc)

\* ExtractBMSBody(rawData): the array returned, or the error thrown
ExtractBMSBody(rawData) ==
    IF ~IsArray(rawData)
    THEN [ok |-> FALSE,
          error |-> [kind |-> "InvalidBody", got |-> TypeOf(rawData)]]
    ELSE [ok |-> TRUE, value |-> ExtractLoop(rawData.v, 1, <<>>)]

\* The checksum of a kept entry, as table.body wraps it: md5 when the md5 test
\* passes, sha256 otherwise.
GetEntryChecksum(entry) ==
    IF ChecksumBranch(entry) = "md5"
    THEN [type |-> "md5", value |-> Get(entry, "md5").v]
    ELSE [type |-> "sha256", value |-> Get(entry, "sha256").v]

\* One entry of table.body as the README shows it.
WrapEntry(entry) == [checksum |-> GetEntryChecksum(entry), content |-> entry]

\* table.body as the README shows it, over the array ExtractBMSBody returned.
WrappedBody(entries) == [i \in 1..Len(entries) |-> WrapEntry(entries[i])]

-----------------------------------------------------------------------------
(* Decoded documents the model draws from. *)

NOT_HEX_32 == "zzzzzzzzzzzzzzzzzzzzzzzzzzzzzzzz"
NOT_HEX_64 == "zzzzzzzzzzzzzzzzzzzzzzzzzzzzzzzzzzzzzzzzzzzzzzzzzzzzzzzzzzzzzzzz"

\* An object holding the fields of r whose value is not Undefined.
MkObj(r) == Obj([k \in {f \in DOMAIN r : r[f] # Undefined} |-> r[k]])

LevelValues == {Undefined, Null, Num(1), Str("1")}

Md5Values ==
    {Undefined, Null, Str(""), Str("null"), Str("short"), Str(VALID_MD5),
     Str(NOT_HEX_32), Str(VALID_SHA256), Arr(<<>>), Obj(<<>>)}

Sha256Values ==
    {Undefined, Null, Str(""), Str(VALID_SHA256), Str(NOT_HEX_64),
     Str(VALID_MD5), Arr(<<>>), Obj(<<>>)}

TitleValues == {Undefined, Str("example song 1")}

\* Every shape of body element the entry tests tell apart.
RichEntries ==
    {MkObj([level |-> l, md5 |-> m, sha256 |-> s, title |-> t]) :
        l \in LevelValues, m \in Md5Values, s \in Sha256Values, t \in TitleValues}
    \cup {Null, Str("not-an-object"), Num(3), [t |-> "bool", v |-> TRUE],
          Arr(<<>>), Arr(<<Str(VALID_MD5)>>)}

\* A few body elements, to build longer arrays from.
SmallEntries ==
    { Obj([level |-> Str("1"), md5 |-> Str(VALID_MD5)]),
      Obj([level |-> Num(1), md5 |-> Str("null"), sha256 |-> Str(VALID_SHA256),
           title |-> Str("example song 1")]),
      Obj([level |-> Str("2"), md5 |-> Str(NOT_HEX_32)]),
      Obj([level |-> Num(1), md5 |-> Str("short"), sha256 |-> Str("")]),
      Null }

SeqsUpTo(S, n) == UNION {[1..k -> S] : k \in 0..n}

\* Decoded values that are not arrays.
NonArrayValues ==
    {Null, Num(3), Str("[]"), [t |-> "bool", v |-> FALSE],
     Obj(<<>>), Obj([level |-> Str("1"), md5 |-> Str(VALID_MD5)])}

\* Decoded bodies ExtractBMSBody is applied to on its own.
RichBodyValues ==
    {Arr(<<e>>) : e \in RichEntries}
    \cup {Arr(b) : b \in SeqsUpTo(SmallEntries, MaxBodyLen)}
    \cup NonArrayValues

-----------------------------------------------------------------------------
(* ExtractBMSBody applied on its own to a decoded body. *)

InitBody ==
    /\ pc = "extractOnly"
    /\ url \in {"http://a/t/table.html"}
    /\ fetch = FetchCall(url, Omitted)
    /\ log = <<>>
    /\ gets = 0
    /\ received = <<>>
    /\ headerLocation = ""
    /\ headerJSON = NoValue
    /\ rawBodyJSON \in RichBodyValues
    /\ bodyJSON = NoValue
    /\ table = NoTable
    /\ error = NoError
    /\ levelOrder = NotCalled
    /\ calls = <<>>
    /\ type = "unset"

\* const bodyJSON = ExtractBMSBody(rawBodyJSON)
ExtractOnly ==
    /\ pc = "extractOnly"
    /\ LET r == ExtractBMSBody(rawBodyJSON)
       IN IF r.ok
          THEN /\ bodyJSON' = Arr(r.value)
               /\ pc' = "extracted"
               /\ error' = error
          ELSE /\ error' = r.error
               /\ pc' = "failed"
               /\ bodyJSON' = bodyJSON
    /\ UNCHANGED <<url, fetch, log, gets, received, headerLocation, headerJSON,
                   rawBodyJSON, table, levelOrder, calls, type>>

NextBody == ExtractOnly

SpecBody == InitBody /\ [][NextBody]_vars

-----------------------------------------------------------------------------
(* Vocabulary of the claims about body entries. *)

HexDigits ==
    {"0", "1", "2", "3", "4", "5", "6", "7", "8", "9",
     "a", "b", "c", "d", "e", "f", "A", "B", "C", "D", "E", "F"}

IsHexString(s) == \A i \in 1..Len(s) : SubSeq(s, i, i) \in HexDigits

HasString(e, k) == k \in DOMAIN e.v /\ e.v[k].t = "str"

\* A string of exactly n characters under field k.
HasStringOfLen(e, k, n) == HasString(e, k) /\ Len(e.v[k].v) = n

\* A string of exactly n hexadecimal characters under field k.
HasHexOfLen(e, k, n) == HasStringOfLen(e, k, n) /\ IsHexString(e.v[k].v)

\* A non-null, non-array object whose level is a number or a string.
IsObjectWithLevel(e) ==
    /\ e.t = "obj"
    /\ "level" \in DOMAIN e.v
    /\ e.v["level"].t \in {"num", "str"}

\* e is an element of the array ExtractBMSBody returned.
KeptInBody(e) == \E j \in 1..Len(bodyJSON.v) : bodyJSON.v[j] = e

\* e was kept, leaving the md5 / sha256 test by the branch `type`.
ResolvedAs(e, checksumType) == KeptInBody(e) /\ ChecksumBranch(e) = checksumType

HasHexIdentity(e) == HasHexOfLen(e, "md5", 32) \/ HasHexOfLen(e, "sha256", 64)

\* An identity as the length tests accept it.
HasLengthIdentity(e) ==
    HasStringOfLen(e, "md5", 32) \/ HasStringOfLen(e, "sha256", 64)

ValidEntryHex(e) == IsObjectWithLevel(e) /\ HasHexIdentity(e)

ValidEntryLength(e) == IsObjectWithLevel(e) /\ HasLengthIdentity(e)

\* C5 as stated, a usable identity being 32 / 64 hexadecimal characters:
\* normalization fails exactly on non-arrays and otherwise returns the
\* sub-sequence of valid elements.
C5_Original_HexIdentity ==
    /\ pc = "failed" => ~IsArray(rawBodyJSON)
    /\ (pc # "extractOnly" /\ IsArray(rawBodyJSON)) =>
          /\ pc = "extracted"
          /\ error = NoError
          /\ bodyJSON = Arr(SelectSeq(rawBodyJSON.v, ValidEntryHex))

\* C5 (amended): normalization fails only when the decoded body is not an
\* array; for every array it does not fail and returns exactly the
\* sub-sequence, in source order and with duplicates kept, of the elements
\* that are non-null, non-array objects with a number-or-string level and an
\* md5 string of length 32 or a sha256 string of length 64 (characters
\* unchecked); no valid element gives an empty body and no error.
C5_FilterOnlyFailsOnNonArray ==
    /\ pc = "failed" =>
          /\ ~IsArray(rawBodyJSON)
          /\ error = [kind |-> "InvalidBody", got |-> TypeOf(rawBodyJSON)]
    /\ (pc # "extractOnly" /\ IsArray(rawBodyJSON)) =>
          /\ pc = "extracted"
          /\ error = NoError
          /\ bodyJSON = Arr(SelectSeq(rawBodyJSON.v, ValidEntryLength))

\* C5's case: an array whose first element is bad and whose second is kept.
C5_Witness ==
    /\ pc = "extracted"
    /\ Len(rawBodyJSON.v) = 2
    /\ ~ValidEntryLength(rawBodyJSON.v[1])
    /\ bodyJSON = Arr(<<rawBodyJSON.v[2]>>)

-----------------------------------------------------------------------------
(* HEAD_SCHEMA.safeParse *)

\* One issue of a failed safeParse: the field it is about (ROOT for the value
\* itself), the array index within it (0 when it is about the field) and
\* zod's issue code.
ROOT == "(root)"
Issue(key, index, code) == [key |-> key, index |-> index, code |-> code]

\* z.string() on the field k of an object
StringIssues(h, k) ==
    IF Get(h, k).t = "str" THEN {} ELSE {Issue(k, 0, "invalid_type")}

OptionalArrayIssues_FirstElementOnly(h, k) ==
    LET x == Get(h, k)
    IN IF x = Undefined
       THEN {}
       ELSE IF ~IsArray(x)
       THEN {Issue(k, 0, "invalid_type")}
       ELSE {Issue(k, i, "invalid_union") :
                i \in {j \in 1..Len(x.v) : j = 1 /\ x.v[j].t \notin {"num", "str"}}}

\* z.optional(z.array(z.union([z.number(), z.string()]))) on the field k
OptionalArrayIssues(h, k) ==
    LET x == Get(h, k)
    IN IF x = Undefined
       THEN {}
       ELSE IF ~IsArray(x)
       THEN {Issue(k, 0, "invalid_type")}
       ELSE {Issue(k, i, "invalid_union") :
                i \in {j \in 1..Len(x.v) : x.v[j].t \notin {"num", "str"}}}

\* The issues HEAD_SCHEMA.safeParse(h) collects; success when there are none.
HeadSchemaIssues(h) ==
    IF h.t # "obj"
    THEN {Issue(ROOT, 0, "invalid_type")}
    ELSE StringIssues(h, "name") \cup StringIssues(h, "symbol")
         \cup StringIssues(h, "data_url")
         \cup OptionalArrayIssues(h, "levels")
         \cup OptionalArrayIssues(h, "level_order")

\* headerResult.success
HeadSchemaSuccess(h) == HeadSchemaIssues(h) = {}

\* throw new Error(`Invalid head.json: ${headerResult.error.toString()}.`)
InvalidHeadError(h) == [kind |-> "InvalidHead", issues |-> HeadSchemaIssues(h)]

\* Header documents HEAD_SCHEMA is applied to on its own.
NameValues == {Undefined, Str("Insane"), Num(1)}
SymbolValues == {Undefined, Str("*"), Null}
DataUrlValues == {Undefined, Str("body.json"), Num(0)}
DataLocationValues == {Undefined, Str("body.json")}
LevelsValues ==
    {Undefined, Null, Str("1"), Arr(<<>>), Arr(<<Num(1), Str("1")>>),
     Arr(<<Num(1), Null>>), Arr(<<Arr(<<>>), Str("2"), Null>>)}
LevelOrderValues == {Undefined, Arr(<<Str("2"), Num(1)>>), Arr(<<Null>>), Num(2)}
TagValues == {Undefined, Str("extra")}

RichHeads ==
    {MkObj([name |-> n, symbol |-> y, data_url |-> d, dataLocation |-> dl,
            levels |-> l, level_order |-> lo, tag |-> g]) :
        n \in NameValues, y \in SymbolValues, d \in DataUrlValues,
        dl \in DataLocationValues, l \in LevelsValues,
        lo \in LevelOrderValues, g \in TagValues}
    \cup {Null, Num(1), Str("{}"), Arr(<<>>),
          Arr(<<Obj([name |-> Str("Insane")])>>)}

InitHead ==
    /\ pc = "validateOnly"
    /\ url \in {"http://a/t/header.json"}
    /\ fetch = FetchCall(url, Omitted)
    /\ log = <<>>
    /\ gets = 0
    /\ received = <<>>
    /\ headerLocation = url
    /\ headerJSON \in RichHeads
    /\ rawBodyJSON = NoValue
    /\ bodyJSON = NoValue
    /\ table = NoTable
    /\ error = NoError
    /\ levelOrder = NotCalled
    /\ calls = <<>>
    /\ type = "unset"

\* const headerResult = HEAD_SCHEMA.safeParse(headerJSON), and the throw on failure
ValidateOnly ==
    /\ pc = "validateOnly"
    /\ IF HeadSchemaSuccess(headerJSON)
       THEN pc' = "validated" /\ error' = error
       ELSE pc' = "failed" /\ error' = InvalidHeadError(headerJSON)
    /\ UNCHANGED <<url, fetch, log, gets, received, headerLocation, headerJSON,
                   rawBodyJSON, bodyJSON, table, levelOrder, calls, type>>

NextHead == ValidateOnly

SpecHead == InitHead /\ [][NextHead]_vars

(* Vocabulary of the claim about header validation. *)

IsStringField(h, k) == k \in DOMAIN h.v /\ h.v[k].t = "str"

\* Field k is absent, or an array of numbers and strings.
IsOptionalLevelArray(h, k) ==
    k \in DOMAIN h.v =>
        /\ h.v[k].t = "arr"
        /\ \A i \in 1..Len(h.v[k].v) : h.v[k].v[i].t \in {"num", "str"}

\* The constraints a decoded value violates, one per field (or element) at
\* fault; the body location must be under data_url.
ViolatedConstraints(h) ==
    IF h.t # "obj"
    THEN {<<ROOT, 0>>}
    ELSE {<<k, 0>> : k \in {f \in {"name", "symbol", "data_url"} : ~IsStringField(h, f)}}
         \cup {<<k, 0>> : k \in {f \in {"levels", "level_order"} :
                                  f \in DOMAIN h.v /\ h.v[f].t # "arr"}}
         \cup UNION {{<<k, i>> : i \in {j \in 1..Len(h.v[k].v) :
                                          h.v[k].v[j].t \notin {"num", "str"}}} :
                     k \in {f \in {"levels", "level_order"} :
                              f \in DOMAIN h.v /\ h.v[f].t = "arr"}}

\* C9 as stated: a value is accepted exactly when it is an object with string
\* name and symbol, a string body location under data_url or under
\* dataLocation, and levels and level_order absent or arrays of numbers and
\* strings.
C9_Original_DataLocationAccepted ==
    pc \in {"validated", "failed"} =>
        ((pc = "validated") <=>
            /\ headerJSON.t = "obj"
            /\ IsStringField(headerJSON, "name")
            /\ IsStringField(headerJSON, "symbol")
            /\ (IsStringField(headerJSON, "data_url")
                \/ IsStringField(headerJSON, "dataLocation"))
            /\ IsOptionalLevelArray(headerJSON, "levels")
            /\ IsOptionalLevelArray(headerJSON, "level_order"))

\* C9 (amended): a value is accepted exactly when it is an object with string
\* name, symbol and data_url (dataLocation is not read), and levels and
\* level_order absent or arrays of numbers and strings; every other value is
\* rejected with an error that lists every violated constraint.
C9_HeaderValidation ==
    pc \in {"validated", "failed"} =>
        /\ (pc = "validated") <=>
              /\ headerJSON.t = "obj"
              /\ IsStringField(headerJSON, "name")
              /\ IsStringField(headerJSON, "symbol")
              /\ IsStringField(headerJSON, "data_url")
              /\ IsOptionalLevelArray(headerJSON, "levels")
              /\ IsOptionalLevelArray(headerJSON, "level_order")
        /\ pc = "validated" => error = NoError
        /\ pc = "failed" =>
              /\ error.kind = "InvalidHead"
              /\ {<<i.key, i.index>> : i \in error.issues}
                    = ViolatedConstraints(headerJSON)
              /\ ViolatedConstraints(headerJSON) # {}

\* C9's case: a header that gives dataLocation but no string data_url, and
\* violates at least three constraints at once, was rejected.
C9_Witness ==
    /\ pc = "failed"
    /\ headerJSON.t = "obj"
    /\ ~IsStringField(headerJSON, "data_url")
    /\ IsStringField(headerJSON, "dataLocation")
    /\ Cardinality(error.issues) >= 3

-----------------------------------------------------------------------------
(* Response texts.  A text is a sequence of pieces: a byte-order mark, a run  *)
(* of white space, the serialisation of one JSON value, a bmstable meta tag  *)
(* with its quoted value, or other markup.                                   *)

Bom == [k |-> "bom"]
Ws == [k |-> "ws"]
Json(value) == [k |-> "json", value |-> value]
Meta(value) == [k |-> "meta", value |-> value]
Markup == [k |-> "markup"]
\* A line holding a bmstable meta tag and no quoted value after it.
Marker == [k |-> "marker"]

\* The first character of a piece.
FirstChar(piece) ==
    CASE piece.k = "bom" -> "\\ufeff"
      [] piece.k = "ws" -> " "
      [] piece.k = "json" ->
            (CASE piece.value.t = "obj" -> "{"
               [] piece.value.t = "arr" -> "["
               [] piece.value.t = "str" -> "\""
               [] OTHER -> "literal")
      [] OTHER -> "<"

RECURSIVE TrimStart(_)
\* resText.trimStart(): white space and byte-order marks are both trimmed
TrimStart(text) ==
    IF text # <<>> /\ Head(text).k \in {"ws", "bom"}
    THEN TrimStart(Tail(text))
    ELSE text

RECURSIVE SkipWs(_)
SkipWs(text) ==
    IF text # <<>> /\ Head(text).k = "ws" THEN SkipWs(Tail(text)) ELSE text

RECURSIVE Reverse(_)
Reverse(text) ==
    IF text = <<>> THEN <<>> ELSE Append(Reverse(Tail(text)), Head(text))

\* JSON.parse(str): one JSON value with white space around it, or a SyntaxError
JSONParse(text) ==
    LET core == Reverse(SkipWs(Reverse(SkipWs(text))))
    IN IF Len(core) = 1 /\ core[1].k = "json"
       THEN [ok |-> TRUE, value |-> core[1].value]
       ELSE [ok |-> FALSE, error |-> [kind |-> "SyntaxError"]]

StripBom_Never(str) == str

\* if (str.startsWith("\ufeff")) cleanStr = str.replace("\ufeff", "")
StripBom(str) ==
    IF str # <<>> /\ Head(str).k = "bom" THEN Tail(str) ELSE str

\* BrokenBMSJSONParse(str)
BrokenBMSJSONParse(str) == JSONParse(StripBom(str))

\* The Content-Type header of a response: absent, or a string.
NoContentType == [present |-> FALSE]
ContentType(value) == [present |-> TRUE, value |-> value]

\* s.includes(sub)
Includes(s, sub) ==
    \E i \in 1..(Len(s) - Len(sub) + 1) : SubSeq(s, i, i + Len(sub) - 1) = sub

\* IsHTMLOrJSON(res, resText)
IsHTMLOrJSON(contentType, resText) ==
    IF ~contentType.present \/ contentType.value = ""
    THEN IF TrimStart(resText) # <<>> /\ FirstChar(Head(TrimStart(resText))) = "{"
         THEN "json"
         ELSE "html"
    ELSE IF Includes(contentType.value, "application/json")
    THEN "json"
    ELSE "html"

RECURSIVE ReadMetaTag(_)
\* ReadMetaTag(html): the quoted value after the first bmstable marker, or null
ReadMetaTag(html) ==
    IF html = <<>>
    THEN Null
    ELSE IF Head(html).k = "meta"
    THEN Str(Head(html).value)
    ELSE ReadMetaTag(Tail(html))

RECURSIVE LastSlash(_, _)
\* The position of the last "/" of s at or before i, 0 when there is none.
LastSlash(s, i) ==
    IF i = 0 THEN 0
    ELSE IF SubSeq(s, i, i) = "/" THEN i
    ELSE LastSlash(s, i - 1)

StartsWith(s, prefix) ==
    Len(s) >= Len(prefix) /\ SubSeq(s, 1, Len(prefix)) = prefix

\* new URL(ref, base).href for the references the model draws: an absolute
\* http URL stands for itself, "" for the base, a plain name replaces the
\* base's last path segment; a scheme with no host is a TypeError.
ResolveURL(ref, base) ==
    IF ref \in {"http://", "https://"}
    THEN [ok |-> FALSE, error |-> [kind |-> "InvalidURL", input |-> ref]]
    ELSE IF StartsWith(ref, "http://") \/ StartsWith(ref, "https://")
    THEN [ok |-> TRUE, href |-> ref]
    ELSE IF ref = ""
    THEN [ok |-> TRUE, href |-> base]
    ELSE [ok |-> TRUE,
          href |-> SubSeq(base, 1, LastSlash(base, Len(base))) \o ref]

-----------------------------------------------------------------------------
(* BMSTable.getLevelOrder *)

ArrayIncludes_LastOnly(levels, x) ==
    levels # <<>> /\ levels[Len(levels)] = x

\* levels.includes(x): SameValueZero, so a number never equals a string
ArrayIncludes(levels, x) == \E i \in 1..Len(levels) : levels[i] = x

RECURSIVE SniffLevels(_, _, _)
\* for (const chart of this.body), from chart i on, with levels = acc
SniffLevels(body, i, acc) ==
    IF i > Len(body)
    THEN acc
    ELSE SniffLevels(body, i + 1,
                     IF ~ArrayIncludes(acc, Get(body[i], "level"))
                     THEN Append(acc, Get(body[i], "level"))
                     ELSE acc)

HeadLevelsSet_NonEmptyOnly(head) ==
    Truthy(Get(head, "levels")) /\ Get(head, "levels").v # <<>>

\* if (this.head.levels)
HeadLevelsSet(head) == Truthy(Get(head, "levels"))

\* getLevelOrder() on a table
GetLevelOrder(t) ==
    IF HeadLevelsSet(t.head)
    THEN Get(t.head, "levels")
    ELSE IF Truthy(Get(t.head, "level_order"))
    THEN Get(t.head, "level_order")
    ELSE Arr(SniffLevels(t.body, 1, <<>>))

-----------------------------------------------------------------------------
(* LoadBMSTable *)

HEAD_PLAIN ==
    Obj([name |-> Str("Insane"), symbol |-> Str("*"),
         data_url |-> Str("body.json")])

HEAD_LEVELS ==
    Obj([name |-> Str("Insane"), symbol |-> Str("*"),
         data_url |-> Str("http://b/d/body.json"),
         levels |-> Arr(<<Str("2"), Num(7)>>),
         level_order |-> Arr(<<Num(1)>>),
         tag |-> Obj([course |-> Arr(<<Null>>)])])

HEAD_EMPTY_LEVELS ==
    Obj([name |-> Str("Insane"), symbol |-> Str("*"),
         data_url |-> Str(""), levels |-> Arr(<<>>),
         level_order |-> Arr(<<Str("1")>>)])

HEAD_LEVEL_ORDER ==
    Obj([name |-> Str("Insane"), symbol |-> Str("*"),
         data_url |-> Str("body.json"),
         level_order |-> Arr(<<Str("1"), Num(1)>>),
         dataLocation |-> Num(0)])

HEAD_NO_DATA_URL ==
    Obj([name |-> Str("Insane"), symbol |-> Str("*"),
         dataLocation |-> Str("body.json")])

HEAD_BAD_URL ==
    Obj([name |-> Str("Insane"), symbol |-> Str("*"),
         data_url |-> Str("http://")])

\* Texts a header response may hold.
HeaderTexts ==
    {<<Json(h)>> : h \in {HEAD_PLAIN, HEAD_LEVELS, HEAD_EMPTY_LEVELS,
                          HEAD_LEVEL_ORDER, HEAD_NO_DATA_URL, HEAD_BAD_URL,
                          Arr(<<HEAD_PLAIN>>)}}
    \cup {<<Bom, Json(HEAD_PLAIN)>>, <<Bom, Bom, Json(HEAD_PLAIN)>>,
          <<Ws, Json(HEAD_LEVELS), Ws>>, <<Json(HEAD_PLAIN), Markup>>}

\* Texts a wrapper page may hold.
HtmlTexts ==
    {<<Markup, Meta("header.json"), Markup>>,
     <<Ws, Meta("http://b/d/header.json"), Meta("other.json")>>,
     <<Markup>>, <<Meta("")>>, <<Meta("http://")>>, <<>>,
     <<Marker, Markup>>, <<Marker, Meta("header.json")>>}

FirstTexts == HeaderTexts \cup HtmlTexts

ContentTypes ==
    {NoContentType, ContentType(""), ContentType("text/html"),
     ContentType("application/json; charset=utf-8")}

\* Texts a body response may hold.
BodyTexts ==
    {<<Json(Arr(b))>> : b \in SeqsUpTo(SmallEntries, MaxBodyLen)}
    \cup {<<Bom, Json(Arr(<<Null>>))>>, <<Json(HEAD_PLAIN)>>, <<Json(Null)>>,
          <<Markup>>}

\* `throw`: LoadBMSTable ends with the error e
Throw(e) ==
    /\ pc' = "failed"
    /\ error' = e
    /\ fetch' = fetch
    /\ log' = log
    /\ calls' = calls

\* await FetchWithRetry(location): a new call, with the default retry count
CallFetch(location, next) ==
    /\ pc' = next
    /\ fetch' = FetchCall(location, Omitted)
    /\ log' = <<>>
    /\ error' = error
    /\ calls' = Append(calls, location)

BodyLocation_FromInputUrl(h, location) ==
    ResolveURL(Get(h, "data_url").v, url)

\* new URL(headerJSON.data_url, headerLocation)
BodyLocation(h, location) == ResolveURL(Get(h, "data_url").v, location)

PointerMissing_NullOnly(bmstable) == bmstable = Null

\* if (!bmstable)
PointerMissing(bmstable) == ~Truthy(bmstable)

\* From HEAD_SCHEMA.safeParse(headerJSON) to the call that fetches the body.
ValidateHeaderAndFetchBody(h, location) ==
    /\ headerJSON' = h
    /\ headerLocation' = location
    /\ IF ~HeadSchemaSuccess(h)
       THEN Throw(InvalidHeadError(h))
       ELSE LET bodyLocation == BodyLocation(h, location)
            IN IF ~bodyLocation.ok
               THEN Throw(bodyLocation.error)
               ELSE CallFetch(bodyLocation.href, "awaitBody")

\* The first response is read and classified; a JSON response is the header,
\* an HTML one points at it.
FirstResponse ==
    /\ pc = "awaitFirst"
    /\ fetch.state = "returned"
    /\ \E contentType \in ContentTypes, resText \in FirstTexts :
        /\ received' = Append(received, [url |-> fetch.url, text |-> resText])
        /\ type' = IsHTMLOrJSON(contentType, resText)
        /\ IF IsHTMLOrJSON(contentType, resText) = "json"
           THEN LET parsed == BrokenBMSJSONParse(resText)
                IN IF parsed.ok
                   THEN ValidateHeaderAndFetchBody(parsed.value, url)
                   ELSE /\ Throw(parsed.error)
                        /\ headerLocation' = url
                        /\ headerJSON' = headerJSON
           ELSE LET bmstable == ReadMetaTag(resText)
                IN IF PointerMissing(bmstable)
                   THEN /\ Throw([kind |-> "NoBmstableTag", url |-> url])
                        /\ UNCHANGED <<headerLocation, headerJSON>>
                   ELSE LET location == ResolveURL(bmstable.v, url)
                        IN IF ~location.ok
                           THEN /\ Throw(location.error)
                                /\ UNCHANGED <<headerLocation, headerJSON>>
                           ELSE /\ CallFetch(location.href, "awaitHeader")
                                /\ headerLocation' = location.href
                                /\ headerJSON' = headerJSON
    /\ UNCHANGED <<url, gets, rawBodyJSON, bodyJSON, table, levelOrder>>

\* The header a wrapper page pointed at is read, decoded and validated.
HeaderResponse ==
    /\ pc = "awaitHeader"
    /\ fetch.state = "returned"
    /\ \E resText \in HeaderTexts :
        /\ received' = Append(received, [url |-> fetch.url, text |-> resText])
        /\ LET parsed == BrokenBMSJSONParse(resText)
           IN IF parsed.ok
              THEN ValidateHeaderAndFetchBody(parsed.value, headerLocation)
              ELSE /\ Throw([kind |-> "FailedToReadHeader", cause |-> parsed.error])
                   /\ UNCHANGED <<headerLocation, headerJSON>>
    /\ UNCHANGED <<url, gets, rawBodyJSON, bodyJSON, table, levelOrder, type>>

TableHead_ParsedData(h) ==
    Obj([k \in DOMAIN h.v \cap {"name", "symbol", "data_url", "levels",
                                "level_order"} |-> h.v[k]])

\* new BMSTable(headerJSON, bodyJSON): the head is the decoded header itself
TableHead(h) == h

\* The body, one of `texts`, is read, decoded and normalized, and the table
\* is returned.
BodyResponseOf(texts) ==
    /\ pc = "awaitBody"
    /\ fetch.state = "returned"
    /\ \E resText \in texts :
        /\ received' = Append(received, [url |-> fetch.url, text |-> resText])
        /\ LET parsed == BrokenBMSJSONParse(resText)
           IN IF ~parsed.ok
              THEN /\ pc' = "failed"
                   /\ error' = [kind |-> "FailedToReadBody", cause |-> parsed.error]
                   /\ UNCHANGED <<fetch, log, rawBodyJSON, bodyJSON, table>>
              ELSE LET r == ExtractBMSBody(parsed.value)
                   IN /\ rawBodyJSON' = parsed.value
                      /\ IF ~r.ok
                         THEN /\ pc' = "failed"
                              /\ error' = r.error
                              /\ UNCHANGED <<fetch, log, bodyJSON, table>>
                         ELSE /\ pc' = "done"
                              /\ error' = error
                              /\ fetch' = NoFetch
                              /\ log' = <<>>
                              /\ bodyJSON' = Arr(r.value)
                              /\ table' = [made |-> TRUE,
                                           head |-> TableHead(headerJSON),
                                           body |-> r.value]
    /\ UNCHANGED <<url, gets, headerLocation, headerJSON, levelOrder, calls,
                   type>>

BodyResponse == BodyResponseOf(BodyTexts)

\* table.getLevelOrder() on the returned table
CallGetLevelOrder ==
    /\ pc = "done"
    /\ levelOrder' = [called |-> TRUE, value |-> GetLevelOrder(table)]
    /\ UNCHANGED <<pc, url, fetch, log, gets, received, headerLocation,
                   headerJSON, rawBodyJSON, bodyJSON, table, error, calls, type>>

\* LoadBMSTable(url) has been called and awaits its first FetchWithRetry.
Init ==
    /\ pc = "awaitFirst"
    /\ url \in {"http://a/t/table.html"}
    /\ fetch = FetchCall(url, Omitted)
    /\ log = <<>>
    /\ gets = 0
    /\ received = <<>>
    /\ headerLocation = ""
    /\ headerJSON = NoValue
    /\ rawBodyJSON = NoValue
    /\ bodyJSON = NoValue
    /\ table = NoTable
    /\ error = NoError
    /\ levelOrder = NotCalled
    /\ calls = <<url>>
    /\ type = "unset"

Next ==
    \/ FetchAttempt
    \/ FetchExhausted
    \/ FirstResponse
    \/ HeaderResponse
    \/ BodyResponse
    \/ CallGetLevelOrder

Spec == Init /\ [][Next]_vars

-----------------------------------------------------------------------------
(* Claims about the table LoadBMSTable returns. *)

\* The JSON value a response text serialises.
JsonPieceOf(text) == text[CHOOSE i \in 1..Len(text) : text[i].k = "json"].value

\* The body document of a finished load, as it was received.
BodyDocument == JsonPieceOf(received[Len(received)].text)

\* The header document of a finished load, as it was received.
HeaderDocument == JsonPieceOf(received[Len(received) - 1].text)

\* C4 as stated: every entry of the returned body has an md5 of 32
\* hexadecimal characters or a sha256 of 64 hexadecimal characters.
C4_Original_HexIdentity ==
    pc = "done" => \A i \in 1..Len(table.body) : HasHexIdentity(table.body[i])

\* C4 (amended): every entry of the returned body has an md5 that is a string
\* of exactly 32 characters or a sha256 that is a string of exactly 64
\* characters; the characters are not checked, so an element whose identity
\* has the right length is kept even with non-hexadecimal characters.
C4_LengthIdentity ==
    pc = "done" =>
        /\ \A i \in 1..Len(table.body) : HasLengthIdentity(table.body[i])
        /\ \A i \in 1..Len(BodyDocument.v) :
              (IsObjectWithLevel(BodyDocument.v[i])
               /\ HasLengthIdentity(BodyDocument.v[i])) =>
                  \E j \in 1..Len(table.body) : table.body[j] = BodyDocument.v[i]

\* C4's case: a returned body holds an entry whose only identity is a
\* 32-character md5 that is not hexadecimal.
C4_Witness ==
    /\ pc = "done"
    /\ \E i \in 1..Len(table.body) :
          /\ HasStringOfLen(table.body[i], "md5", 32)
          /\ ~HasHexIdentity(table.body[i])

\* The checksum the README gives for a kept source element.
ExpectedChecksum(e) ==
    IF HasStringOfLen(e, "md5", 32)
    THEN [type |-> "md5", value |-> e.v["md5"].v]
    ELSE [type |-> "sha256", value |-> e.v["sha256"].v]

C10_HeadIntact ==
    pc = "done" =>
        /\ table.made
        /\ table.head = HeaderDocument
        /\ \A k \in DOMAIN HeaderDocument.v :
              k \in DOMAIN table.head.v /\ table.head.v[k] = HeaderDocument.v[k]

\* C10's case: a returned head holding a field the schema does not know.
C10_Witness ==
    /\ pc = "done"
    /\ "tag" \in DOMAIN HeaderDocument.v
    /\ Get(table.head, "tag") = Obj([course |-> Arr(<<Null>>)])
    /\ Get(table.head, "levels") = Arr(<<Str("2"), Num(7)>>)

\* C6: when the head has levels, getLevelOrder returns it as given (also when
\* it is empty, when level_order is set too and when the body uses other
\* levels); when it has no levels and has level_order, it returns level_order
\* as given.
C6_HeadLevelsVerbatim ==
    levelOrder.called =>
        /\ "levels" \in DOMAIN table.head.v =>
              levelOrder.value = table.head.v["levels"]
        /\ ("levels" \notin DOMAIN table.head.v
            /\ "level_order" \in DOMAIN table.head.v) =>
              levelOrder.value = table.head.v["level_order"]

\* C6's case: levels is empty, level_order is not, and the body has entries.
C6_Witness ==
    /\ levelOrder.called
    /\ Get(table.head, "levels") = Arr(<<>>)
    /\ Get(table.head, "level_order") = Arr(<<Str("1")>>)
    /\ Len(table.body) >= 1
    /\ levelOrder.value = Arr(<<>>)

\* The position of the first body entry whose level is x.
FirstUse(body, x) ==
    CHOOSE i \in 1..Len(body) :
        /\ body[i].v["level"] = x
        /\ \A j \in 1..(i - 1) : body[j].v["level"] # x

\* C7: with neither levels nor level_order in the head, getLevelOrder returns
\* the levels of the body entries, each once, in the order of their first
\* use, a number and a string never being the same level; however often it
\* is called the result is this one and head and body stay as returned.
C7_SniffedLevelOrder ==
    (levelOrder.called
     /\ "levels" \notin DOMAIN table.head.v
     /\ "level_order" \notin DOMAIN table.head.v) =>
        LET r == levelOrder.value.v
        IN /\ levelOrder.value.t = "arr"
           /\ {r[i] : i \in 1..Len(r)}
                 = {table.body[j].v["level"] : j \in 1..Len(table.body)}
           /\ \A i, j \in 1..Len(r) : i # j => r[i] # r[j]
           /\ \A i, j \in 1..Len(r) :
                 i < j => FirstUse(table.body, r[i]) < FirstUse(table.body, r[j])
           /\ (\E j \in 1..Len(table.body) : table.body[j].v["level"] = Num(1))
                 => \E i \in 1..Len(r) : r[i] = Num(1)
           /\ (\E j \in 1..Len(table.body) : table.body[j].v["level"] = Str("1"))
                 => \E i \in 1..Len(r) : r[i] = Str("1")
           /\ table.head = headerJSON
           /\ Arr(table.body) = bodyJSON

\* C7's case: the body uses the number 1, the string "1" and the number 1
\* again, and getLevelOrder returned the two of them in that order.
C7_Witness ==
    /\ levelOrder.called
    /\ "levels" \notin DOMAIN table.head.v
    /\ "level_order" \notin DOMAIN table.head.v
    /\ Len(table.body) = 3
    /\ table.body[1].v["level"] = Num(1)
    /\ table.body[2].v["level"] = Str("1")
    /\ table.body[3].v["level"] = Num(1)
    /\ levelOrder.value = Arr(<<Num(1), Str("1")>>)

-----------------------------------------------------------------------------
(* Claims about the course of one LoadBMSTable call. *)

\* The place of the body fetch among the calls of FetchWithRetry: the second
\* call when the first response is the header, the third behind a wrapper.
BodyCallIndex == IF type = "json" THEN 2 ELSE 3

\* The body fetch has been issued.
BodyFetchIssued == type # "unset" /\ Len(calls) = BodyCallIndex

\* The header's own location, told from the input URL and the wrapper page.
HeaderOwnLocation ==
    IF type = "json"
    THEN url
    ELSE ResolveURL(ReadMetaTag(received[1].text).v, url).href

\* The phases of a load, as far as the state shows them.
PhasesInOrder ==
    /\ Len(calls) <= Len(received) + 1
    /\ \A i \in 1..Len(received) : received[i].url = calls[i]
    /\ calls[1] = url
    /\ Len(calls) >= 2 => type # "unset" /\ Len(received) >= 1
    /\ (type = "html" /\ Len(calls) >= 2) => calls[2] = HeaderOwnLocation
    /\ BodyFetchIssued =>
          LET header == BrokenBMSJSONParse(received[BodyCallIndex - 1].text)
          IN /\ received[BodyCallIndex - 1].url = HeaderOwnLocation
             /\ header.ok
             /\ HeadSchemaSuccess(header.value)
             /\ headerJSON = header.value
             /\ calls[BodyCallIndex]
                   = ResolveURL(Get(header.value, "data_url").v,
                                HeaderOwnLocation).href
    /\ Len(calls) <= BodyCallIndex
    /\ table.made => pc = "done" /\ BodyFetchIssued /\ Len(received) = Len(calls)
    /\ pc = "failed" => ~table.made

\* C11: a fetch is issued only after the response of the one before it has
\* been read; the body is fetched only after the header document has been
\* fetched, decoded and validated, from data_url resolved against the
\* header's own location (the input URL when the first response is the
\* header, the wrapper's pointer resolved against the input URL otherwise);
\* and once a phase has failed no fetch or GET is issued and no table is
\* returned.
C11_StrictPhaseOrder ==
    /\ []PhasesInOrder
    /\ [][pc = "failed" =>
            (pc' = "failed" /\ calls' = calls /\ gets' = gets /\ table' = table)]_vars

\* C11's case: behind a wrapper on one host, a header on another host whose
\* data_url is a relative name: the body was fetched next to the header,
\* not next to the wrapper.
C11_Witness ==
    /\ pc = "done"
    /\ type = "html"
    /\ Get(headerJSON, "data_url") = Str("body.json")
    /\ calls = <<"http://a/t/table.html", "http://b/d/header.json",
                 "http://b/d/body.json">>

\* The text LoadBMSTable read last was handed to BrokenBMSJSONParse: every
\* response is, but a first response classified as HTML.
LastTextDecoded ==
    /\ Len(received) >= 1
    /\ Len(received) = Len(calls)
    /\ ~(Len(received) = 1 /\ type = "html")

\* The load failed because the text read last is not valid JSON after the
\* BOM strip.
DecodeFailed ==
    /\ pc = "failed"
    /\ LastTextDecoded
    /\ ~BrokenBMSJSONParse(received[Len(received)].text).ok

\* The error wraps the decoder's failure.
WrapsDecodeFailure(e) ==
    /\ e.kind \in {"FailedToReadHeader", "FailedToReadBody"}
    /\ "cause" \in DOMAIN e
    /\ e.cause = [kind |-> "SyntaxError"]

\* C12 as stated: at each of the three decode sites (the header received
\* directly, the header behind a wrapper, the body) text that is not valid
\* after the BOM strip fails the load with an error wrapping the decoder's
\* failure; the decoder's own error never reaches the caller unwrapped.
C12_Original_UniformWrapping ==
    DecodeFailed => WrapsDecodeFailure(error) /\ error.kind # "SyntaxError"

\* What the code does at the two sites inside try/catch: behind a wrapper and
\* for the body the decoder's failure is wrapped.
C12_WrappedInsideTry ==
    (DecodeFailed /\ ~(Len(received) = 1 /\ type = "json")) =>
        WrapsDecodeFailure(error)

\* What the code does at the site outside try/catch: a header received
\* directly fails the load with the decoder's own error.
C12_RawOnDirectPath ==
    (DecodeFailed /\ Len(received) = 1 /\ type = "json") =>
        error = [kind |-> "SyntaxError"]

\* The document holds a bmstable marker tag, with or without a value.
ContainsMarker(html) == \E i \in 1..Len(html) : html[i].k \in {"meta", "marker"}

\* The places of the marker tags that a quoted value follows.
QuotedMarkers(html) == {i \in 1..Len(html) : html[i].k = "meta"}

\* The quoted value after the first of them.
FirstQuotedValue(html) ==
    html[CHOOSE i \in QuotedMarkers(html) :
            \A j \in QuotedMarkers(html) : i <= j].value

\* The missing-pointer error, naming the requested URL.
MissingPointerError == [kind |-> "NoBmstableTag", url |-> url]

\* C13 as stated: for a first response classified as HTML the load fails
\* with the missing-pointer error exactly when the document has no bmstable
\* marker tag, and with a marker that a quoted value follows, whatever the
\* value, it goes on to fetch the header.
C13_Original_AnyQuotedValue ==
    type = "html" =>
        /\ (error = MissingPointerError) <=> ~ContainsMarker(received[1].text)
        /\ QuotedMarkers(received[1].text) # {} =>
              /\ error.kind # "NoBmstableTag"
              /\ Len(calls) >= 2

\* C13 (amended): for a first response classified as HTML the load fails
\* with the missing-pointer error, naming the requested URL and fetching
\* nothing more, exactly when no marker tag of the document is followed by a
\* quoted value or the first such value is empty; when the first such value
\* is not empty, the load does not raise that error and fetches the header
\* at the value resolved against the wrapper URL, later markers being
\* ignored, unless the value cannot be resolved, which fails the load with
\* the URL error and no fetch.
C13_MissingPointer ==
    type = "html" =>
        LET html == received[1].text
            readable == /\ QuotedMarkers(html) # {}
                        /\ FirstQuotedValue(html) # ""
        IN /\ (error = MissingPointerError) <=> ~readable
           /\ error.kind = "NoBmstableTag" =>
                 error = MissingPointerError /\ pc = "failed" /\ calls = <<url>>
           /\ readable =>
                 LET location == ResolveURL(FirstQuotedValue(html), url)
                 IN IF location.ok
                    THEN /\ Len(calls) >= 2
                         /\ calls[2] = location.href
                         /\ headerLocation = location.href
                    ELSE /\ pc = "failed"
                         /\ error = location.error
                         /\ calls = <<url>>

\* C13's case: a wrapper with two markers; the header was fetched at the
\* value of the first.
C13_Witness ==
    /\ type = "html"
    /\ Cardinality(QuotedMarkers(received[1].text)) = 2
    /\ received[1].text[3] = Meta("other.json")
    /\ Len(calls) >= 2
    /\ calls[2] = "http://b/d/header.json"
    /\ error = NoError

-----------------------------------------------------------------------------
(* Termination of LoadBMSTable. *)

\* Texts a body response may hold, for the runs that end a load: a body of
\* no entry, of an entry that is kept, of one that is dropped, a body that
\* is not an array, and texts that do not decode.
LiveBodyTexts ==
    {<<Json(Arr(<<>>))>>,
     <<Json(Arr(<<Obj([level |-> Str("1"), md5 |-> Str(VALID_MD5)])>>))>>,
     <<Bom, Json(Arr(<<Null>>))>>,
     <<Json(HEAD_PLAIN)>>,
     <<Bom, Bom, Json(Arr(<<>>))>>,
     <<Markup>>}

LiveBodyResponse == BodyResponseOf(LiveBodyTexts)

\* One step of the load itself: a GET answered, or the code after an await.
LoadStep ==
    \/ FetchAttempt
    \/ FetchExhausted
    \/ FirstResponse
    \/ HeaderResponse
    \/ LiveBodyResponse

\* One LoadBMSTable call in which every GET is answered and the code after
\* each await runs: a load that can take a step takes one.
SpecLive == Init /\ [][LoadStep]_vars /\ WF_vars(LoadStep)

\* LoadBMSTable has returned or thrown.
Finished == pc \in {"done", "failed"}

\* What a load has used, and its outcome.
WithinBudget ==
    /\ Len(calls) <= 3
    /\ type = "json" => Len(calls) <= 2
    /\ Len(log) <= 3
    /\ gets <= 9
    /\ pc = "done" <=> table.made
    /\ pc = "failed" <=> error # NoError
    /\ ~(table.made /\ error # NoError)

\* C14: every GET being answered, a LoadBMSTable call finishes; it calls
\* FetchWithRetry at most 3 times (at most twice when the first response is
\* the header) and issues at most 9 GETs whatever the statuses and the texts
\* are; it ends with a table or with an error, never both, and the outcome
\* once reached stays.
C14_TerminatesWithinBudget ==
    /\ <>Finished
    /\ []WithinBudget
    /\ [][Finished => (/\ pc' = pc
                       /\ table' = table
                       /\ error' = error
                       /\ calls' = calls
                       /\ gets' = gets)]_vars

\* C14's case: wrapper, header and body each answered at the third GET, and
\* the table was returned after 9 GETs.
C14_Witness ==
    /\ pc = "done"
    /\ table.made
    /\ Len(calls) = 3
    /\ gets = 9

====
